---------------------------- MODULE Spec2Model ----------------------------
(***************************************************************************)
(* A model of the pubsub-sse hub: the registry of clients                  *)
(* (sSEPubSubHandler), the clients with their private topics, the shared   *)
(* public topics, the subscriber sets, and the unbuffered per-client       *)
(* stream that the Event handler drains.                                    *)
(*                                                                         *)
(* Caller threads run the operations of client.go and of the handler file  *)
(* step by step.  A section of code that runs between a Lock and its       *)
(* Unlock without blocking inside is one step, enabled when the lock is    *)
(* free.  A send on a client's stream (an unbuffered Go channel) blocks    *)
(* the sender, with every lock it holds, until a running Event loop of     *)
(* that client receives.                                                   *)
(***************************************************************************)
EXTENDS Naturals, FiniteSets, Sequences, TLC

\* ------------------------------------------------------------- bounds
\* Number of calls of the API the callers make in one behaviour.
MaxOps == 4
\* Number of calls a recording test keeps: the latest ones.
MaxHist == 3

\* ------------------------------------------------------------- inputs
Threads == {1, 2}
ClientIds == {"c1", "c2"}
TopicNames == {"a", "b"}
\* The public topics registered with the hub when it is configured.
RegisteredPublic == {"a"}

\* A call constructs at most one client object.
Objs == 1..MaxOps

\* type status (client.go:11-15)
Waiting == "Waiting"
Receving == "Receving"

VARIABLES
    clients,        \* sSEPubSubHandler.clients: id -> client object (0: no entry)
    cl,             \* the client objects constructed so far: <<[id, status]>>
    clock,          \* client.lock of each object: the thread holding it (0: free)
    hubW,           \* sSEPubSubHandler.lock, write side: the holder (0: free)
    hubR,           \* sSEPubSubHandler.lock, read side: the holders
    publicTopics,   \* sSEPubSubHandler.publicTopics: the registered names
    pubClients,     \* topic.Clients of each public topic: id -> client object
    topics,         \* the private topic objects constructed so far: <<[owner, name, sub]>>
    privateTopics,  \* client.privateTopics of each object: name -> topic object
    driver,         \* the client objects whose stream an Event loop is reading
    th,             \* each caller thread's position in the operation it runs
    nops,           \* the number of API calls made so far
    hist            \* the calls a sequential test records, when it records

vars == <<clients, cl, clock, hubW, hubR, publicTopics, pubClients, topics,
          privateTopics, driver, th, nops, hist>>

\* ------------------------------------------------------------- threads
\* A topic object: a public one by its name, a private one by its name and
\* its place among the private topic objects constructed.
NoTopic == <<"none", "", 0>>

Idle ==
    [pc |-> "idle", op |-> "", id |-> "", c |-> 0, n |-> "", err |-> "",
     ret |-> 0, kind |-> "", to |-> 0, phase |-> "", seen |-> {},
     snap |-> {}, pushed |-> {}, trk |-> FALSE, after |-> {},
     acc |-> NoTopic, tl |-> NoTopic, view |-> {}, tops |-> {},
     subs |-> {}]

Allocated == 1..Len(cl)

HubFree == hubW = 0 /\ hubR = {}

\* Thread t is between two calls and may make the next one.  The threads are
\* interchangeable: a call goes to thread 1 whenever thread 1 is free.
Free(t) == th[t].pc \in {"idle", "ret"}
CanCall(t) ==
    /\ Free(t)
    /\ nops < MaxOps
    /\ \A u \in Threads : u < t => ~Free(u)

\* c.status == Receving
IsReceving(o) == cl[o].status = Receving

\* The keys of a topic.Clients map.
PubSubscribers(n) == {i \in ClientIds : pubClients[n][i] # 0}
PrivSubscribers(k) == IF topics[k].sub THEN {cl[topics[k].owner].id} ELSE {}

ResolvePublicFirst(o, n) ==
    IF n \in publicTopics THEN "public"
    ELSE IF privateTopics[o][n] # 0 THEN "private"
    ELSE "none"

\* The lookup of client.Sub and client.Unsub (client.go:186-197, 217-228):
\* the client's private topics first, the public topics second.
Resolve(o, n) ==
    IF privateTopics[o][n] # 0 THEN "private"
    ELSE IF n \in publicTopics THEN "public"
    ELSE "none"

\* _, exists := topic.Clients[c.id] for the topic the name resolves to.
IsSubscribed(o, n) ==
    IF Resolve(o, n) = "private" THEN topics[privateTopics[o][n]].sub
    ELSE IF Resolve(o, n) = "public" THEN pubClients[n][cl[o].id] # 0
    ELSE FALSE

\* Every id that is a key of some topic's Clients map.
AllSubscriberIds ==
    UNION {PubSubscribers(n) : n \in publicTopics}
    \cup UNION {PrivSubscribers(k) : k \in 1..Len(topics)}

\* The subscriber set of the topic a name resolves to for a client.
Subscribers(o, n) ==
    IF Resolve(o, n) = "private" THEN PrivSubscribers(privateTopics[o][n])
    ELSE IF Resolve(o, n) = "public" THEN PubSubscribers(n)
    ELSE {}

Set(t, r) == th' = [th EXCEPT ![t] = r]

Latest(q) == IF Len(q) > MaxHist THEN Tail(q) ELSE q

\* A call of the API is made: it counts, and a recording test notes the call
\* and the subscriber set its topic has before the call.
Called(op, o, n) ==
    /\ nops' = nops + 1
    /\ hist' = IF hist.on
               THEN [hist EXCEPT !.calls = Latest(Append(@,
                        [op |-> op, c |-> o, n |-> n,
                         before |-> IF o = 0 THEN {} ELSE Subscribers(o, n)]))]
               ELSE hist

\* Where a thread goes when a call of Unsub, Sub or a send returns: back into
\* the loops of RemoveClient (which ignores Unsub's error), or to its caller.
AfterCall(r, e) ==
    IF r.op = "RemoveClient"
    THEN [r EXCEPT !.pc = "rc_loop", !.kind = "", !.to = 0, !.trk = FALSE,
                   !.after = {}]
    ELSE [r EXCEPT !.pc = "ret", !.err = e, !.to = 0]

Init ==
    /\ clients = [i \in ClientIds |-> 0]
    /\ cl = << >>
    /\ clock = [o \in Objs |-> 0]
    /\ hubW = 0
    /\ hubR = {}
    /\ publicTopics = RegisteredPublic
    /\ pubClients = [n \in RegisteredPublic |-> [i \in ClientIds |-> 0]]
    /\ topics = << >>
    /\ privateTopics = [o \in Objs |-> [n \in TopicNames |-> 0]]
    /\ driver = {}
    /\ th = [t \in Threads |-> Idle]
    /\ nops = 0
    /\ hist = [on |-> FALSE, calls |-> << >>]

\* ------------------------------------------------------------- NewClient
\* uuid.New().String(): an id no client object has had.
FreshIds == {i \in ClientIds : \A o \in Allocated : cl[o].id # i}

NewClientMissingCheck(t, given) ==
    /\ CanCall(t)
    /\ HubFree
    /\ \E id \in (IF given = "" THEN FreshIds ELSE {given}) :
          /\ cl' = Append(cl, [id |-> id, status |-> Waiting])
          /\ clients' = [clients EXCEPT ![id] = Len(cl) + 1]
          /\ Set(t, [Idle EXCEPT !.pc = "ret", !.op = "NewClient", !.id = id,
                                 !.ret = Len(cl) + 1, !.err = "ok"])
    /\ UNCHANGED <<clock, hubW, hubR, publicTopics, pubClients, topics,
                   privateTopics, driver>>
    /\ Called("NewClient", 0, "")

\* sSEPubSubHandler.NewClient (client.go:30-57), all of it under s.lock.
NewClient(t, given) ==
    /\ CanCall(t)
    /\ HubFree
    /\ \E id \in (IF given = "" THEN FreshIds ELSE {given}) :
          IF clients[id] # 0
          THEN /\ Set(t, [Idle EXCEPT !.pc = "ret", !.op = "NewClient",
                                      !.id = id, !.ret = clients[id],
                                      !.err = "ok"])
               /\ UNCHANGED <<clients, cl>>
          ELSE /\ cl' = Append(cl, [id |-> id, status |-> Waiting])
               /\ clients' = [clients EXCEPT ![id] = Len(cl) + 1]
               /\ Set(t, [Idle EXCEPT !.pc = "ret", !.op = "NewClient",
                                      !.id = id, !.ret = Len(cl) + 1,
                                      !.err = "ok"])
    /\ UNCHANGED <<clock, hubW, hubR, publicTopics, pubClients, topics,
                   privateTopics, driver>>
    /\ Called("NewClient", 0, "")

\* ------------------------------------------------------------- pushes
\* A thread whose "subscribed"/"unsubscribed" notification for topic n of
\* client o is still to be sent, its change of the subscriber set made
\* while o was Receving.
Pending(u, o, n) ==
    /\ th[u].pc \in {"snd_lock", "snd_wait"}
    /\ th[u].kind \in {"subscribed", "unsubscribed"}
    /\ th[u].c = o
    /\ th[u].n = n
    /\ th[u].trk

\* Thread t moves to r; its push is no longer ahead of any other thread's.
Done(t, r) ==
    th' = [u \in Threads |->
             IF u = t THEN r ELSE [th[u] EXCEPT !.after = @ \ {t}]]

\* c.lock.Lock(); if c.status == Receving { c.stream <- ... } of sendUpdate,
\* sendNewTopicsList, sendNewSubscribedTopic and sendUnsubscribedTopic
\* (client.go:308-312, 387-391, 414-418, 441-445).  While Waiting the message
\* is dropped and the lock released at once; while Receving the thread
\* blocks on the unbuffered stream with c.lock held.
SendLock(t) ==
    /\ th[t].pc = "snd_lock"
    /\ clock[th[t].to] = 0
    /\ IF IsReceving(th[t].to)
       THEN /\ clock' = [clock EXCEPT ![th[t].to] = t]
            /\ Set(t, [th[t] EXCEPT !.pc = "snd_wait"])
       ELSE /\ Done(t, AfterCall(th[t], "ok"))
            /\ UNCHANGED clock
    /\ UNCHANGED <<clients, cl, hubW, hubR, publicTopics, pubClients, topics,
                   privateTopics, driver>>
    /\ UNCHANGED <<nops, hist>>

\* ------------------------------------------------------------- Event
\* sSEPubSubHandler.Event up to its loop (part_000:125-148): the lookup of
\* the client under s.lock; from then on the loop reads client.stream.
Event(id) ==
    /\ HubFree
    /\ clients[id] # 0
    /\ clients[id] \notin driver
    /\ driver' = driver \cup {clients[id]}
    /\ UNCHANGED <<clients, cl, clock, hubW, hubR, publicTopics, pubClients,
                   topics, privateTopics, th>>
    /\ UNCHANGED <<nops, hist>>

\* case msg := <-client.stream (part_000:152-157): the loop takes the message
\* of one thread blocked on the stream of o.  A sender of the client's own
\* notifications then runs c.lock.Unlock() and returns; the hub's Pub goes on
\* with its loop.
EventRead(o) ==
    /\ o \in driver
    /\ \E t \in Threads :
          /\ th[t].to = o
          /\ \/ /\ th[t].pc = "snd_wait"
                /\ clock' = [clock EXCEPT ![o] = 0]
                /\ Done(t, AfterCall([th[t] EXCEPT
                                        !.pushed = @ \cup {cl[o].id}], "ok"))
             \/ /\ th[t].pc = "hp_send"
                /\ Set(t, [th[t] EXCEPT !.pc = "hp_loop", !.to = 0,
                                        !.pushed = @ \cup {cl[o].id}])
                /\ UNCHANGED clock
    /\ UNCHANGED <<clients, cl, hubW, hubR, publicTopics, pubClients, topics,
                   privateTopics, driver>>
    /\ UNCHANGED <<nops, hist>>

\* The delivery driver marks the client it drains as Receving.
SetReceving(o) ==
    /\ o \in driver
    /\ cl[o].status = Waiting
    /\ cl' = [cl EXCEPT ![o].status = Receving]
    /\ UNCHANGED <<clients, clock, hubW, hubR, publicTopics, pubClients,
                   topics, privateTopics, driver, th>>
    /\ UNCHANGED <<nops, hist>>

\* ------------------------------------------------------------- Sub, Unsub
\* topic.Clients[c.id] = c
AddSubscriber(o, n) ==
    IF Resolve(o, n) = "private"
    THEN /\ topics' = [topics EXCEPT ![privateTopics[o][n]].sub = TRUE]
         /\ UNCHANGED pubClients
    ELSE /\ pubClients' = [pubClients EXCEPT ![n][cl[o].id] = o]
         /\ UNCHANGED topics

DeleteSubscriberKeeps(o, n) == UNCHANGED <<topics, pubClients>>

\* delete(topic.Clients, c.id)
DeleteSubscriber(o, n) ==
    IF Resolve(o, n) = "private"
    THEN /\ topics' = [topics EXCEPT ![privateTopics[o][n]].sub = FALSE]
         /\ UNCHANGED pubClients
    ELSE /\ pubClients' = [pubClients EXCEPT ![n][cl[o].id] = 0]
         /\ UNCHANGED topics

\* The notification a thread owes after it changed the subscriber set.
Notify(t, r, kind) ==
    [r EXCEPT !.pc = "snd_lock", !.kind = kind, !.to = r.c,
              !.trk = IsReceving(r.c),
              !.after = IF IsReceving(r.c)
                        THEN {u \in Threads \ {t} : Pending(u, r.c, r.n)}
                        ELSE {}]

\* client.Sub from c.lock.Lock() to c.lock.Unlock() (client.go:182-204).
Sub(t, o, n) ==
    /\ CanCall(t)
    /\ o \in Allocated
    /\ clock[o] = 0
    /\ LET r == [Idle EXCEPT !.op = "Sub", !.c = o, !.n = n] IN
         IF Resolve(o, n) = "none"
         THEN /\ Set(t, AfterCall(r, "NotFound"))
              /\ UNCHANGED <<topics, pubClients>>
         ELSE /\ AddSubscriber(o, n)
              /\ Set(t, Notify(t, r, "subscribed"))
    /\ UNCHANGED <<clients, cl, clock, hubW, hubR, publicTopics,
                   privateTopics, driver>>
    /\ Called("Sub", o, n)

UnsubBodyNoMembershipTest(t, r) ==
    /\ clock[r.c] = 0
    /\ IF Resolve(r.c, r.n) = "none"
       THEN /\ Set(t, AfterCall(r, "NotFound"))
            /\ UNCHANGED <<topics, pubClients>>
       ELSE /\ DeleteSubscriber(r.c, r.n)
            /\ Set(t, Notify(t, r, "unsubscribed"))
    /\ UNCHANGED <<clients, cl, clock, hubW, hubR, publicTopics,
                   privateTopics, driver>>

\* client.Unsub from c.lock.Lock() to c.lock.Unlock() (client.go:213-239),
\* entered by thread t in position r.
UnsubBody(t, r) ==
    /\ clock[r.c] = 0
    /\ IF Resolve(r.c, r.n) = "none"
       THEN /\ Set(t, AfterCall(r, "NotFound"))
            /\ UNCHANGED <<topics, pubClients>>
       ELSE IF ~IsSubscribed(r.c, r.n)
       THEN /\ Set(t, AfterCall(r, "NotSubscribed"))
            /\ UNCHANGED <<topics, pubClients>>
       ELSE /\ DeleteSubscriber(r.c, r.n)
            /\ Set(t, Notify(t, r, "unsubscribed"))
    /\ UNCHANGED <<clients, cl, clock, hubW, hubR, publicTopics,
                   privateTopics, driver>>

\* client.Unsub called on a client reference.
Unsub(t, o, n) ==
    /\ CanCall(t)
    /\ o \in Allocated
    /\ UnsubBody(t, [Idle EXCEPT !.op = "Unsub", !.c = o, !.n = n])
    /\ Called("Unsub", o, n)

\* cl.Unsub(topic.Name) called by RemoveClient and RemovePrivateTopic
\* (client.go:90, 95, 142).
CalledUnsub(t) ==
    /\ th[t].pc = "us_body"
    /\ UnsubBody(t, th[t])
    /\ UNCHANGED <<nops, hist>>

\* ------------------------------------------------------------- private topics
\* client.NewPrivateTopic, the check made before c.lock is taken
\* (client.go:105-108).
NewPrivateTopic(t, o, n) ==
    /\ CanCall(t)
    /\ o \in Allocated
    /\ LET r == [Idle EXCEPT !.op = "NewPrivateTopic", !.c = o, !.n = n] IN
         IF privateTopics[o][n] # 0
         THEN Set(t, [r EXCEPT !.pc = "ret", !.err = "AlreadyExists"])
         ELSE Set(t, [r EXCEPT !.pc = "npt_lock"])
    /\ UNCHANGED <<clients, cl, clock, hubW, hubR, publicTopics, pubClients,
                   topics, privateTopics, driver>>
    /\ Called("NewPrivateTopic", o, n)

\* top := &topic{...}; c.lock.Lock(); c.privateTopics[name] = top;
\* c.lock.Unlock() (client.go:110-123); then sendNewTopicsList.
InsertPrivateTopic(t) ==
    /\ th[t].pc = "npt_lock"
    /\ clock[th[t].c] = 0
    /\ topics' = Append(topics, [owner |-> th[t].c, name |-> th[t].n,
                                 sub |-> FALSE])
    /\ privateTopics' = [privateTopics EXCEPT ![th[t].c][th[t].n] =
                            Len(topics) + 1]
    /\ Set(t, [th[t] EXCEPT !.pc = "gt", !.kind = "topics"])
    /\ UNCHANGED <<clients, cl, clock, hubW, hubR, publicTopics, pubClients,
                   driver>>
    /\ UNCHANGED <<nops, hist>>

\* topics := c.GetTopics() of sendNewTopicsList (client.go:362, 151-164): the
\* snapshot is taken under c.lock.
GetTopics(t) ==
    /\ th[t].pc = "gt"
    /\ clock[th[t].c] = 0
    /\ Set(t, [th[t] EXCEPT !.pc = "snd_lock", !.to = th[t].c])
    /\ UNCHANGED <<clients, cl, clock, hubW, hubR, publicTopics, pubClients,
                   topics, privateTopics, driver>>
    /\ UNCHANGED <<nops, hist>>

\* client.RemovePrivateTopic, the check made before c.lock is taken
\* (client.go:133-136).
RemovePrivateTopic(t, o, n) ==
    /\ CanCall(t)
    /\ o \in Allocated
    /\ LET r == [Idle EXCEPT !.op = "RemovePrivateTopic", !.c = o, !.n = n] IN
         IF privateTopics[o][n] = 0
         THEN Set(t, [r EXCEPT !.pc = "ret", !.err = "NotFound"])
         ELSE Set(t, [r EXCEPT !.pc = "rpt_lock"])
    /\ UNCHANGED <<clients, cl, clock, hubW, hubR, publicTopics, pubClients,
                   topics, privateTopics, driver>>
    /\ Called("RemovePrivateTopic", o, n)

\* c.lock.Lock(); defer c.lock.Unlock(); c.Unsub(name) (client.go:138-142).
\* Unsub begins with c.lock.Lock() on the mutex this thread holds, and a Go
\* sync.Mutex is not reentrant: CalledUnsub is never enabled for this thread,
\* so the delete of client.go:145 is never reached and is no action here.
LockForRemoval(t) ==
    /\ th[t].pc = "rpt_lock"
    /\ clock[th[t].c] = 0
    /\ clock' = [clock EXCEPT ![th[t].c] = t]
    /\ Set(t, [th[t] EXCEPT !.pc = "us_body"])
    /\ UNCHANGED <<clients, cl, hubW, hubR, publicTopics, pubClients, topics,
                   privateTopics, driver>>
    /\ UNCHANGED <<nops, hist>>

\* ------------------------------------------------------------- client.Pub
PubNoStatusCheck(t, o, n) ==
    /\ CanCall(t)
    /\ o \in Allocated
    /\ Set(t, [Idle EXCEPT !.op = "Pub", !.c = o, !.n = n,
                           !.pc = "cp_lookup"])
    /\ UNCHANGED <<clients, cl, clock, hubW, hubR, publicTopics, pubClients,
                   topics, privateTopics, driver>>
    /\ Called("Pub", o, n)

\* client.Pub, the status check made before c.lock is taken
\* (client.go:249-251).
Pub(t, o, n) ==
    /\ CanCall(t)
    /\ o \in Allocated
    /\ LET r == [Idle EXCEPT !.op = "Pub", !.c = o, !.n = n] IN
         IF cl[o].status = Waiting
         THEN Set(t, [r EXCEPT !.pc = "ret", !.err = "NotReceiving"])
         ELSE Set(t, [r EXCEPT !.pc = "cp_lookup"])
    /\ UNCHANGED <<clients, cl, clock, hubW, hubR, publicTopics, pubClients,
                   topics, privateTopics, driver>>
    /\ Called("Pub", o, n)

\* The lookup of the private topic under c.lock (client.go:254-260); then
\* c.sendUpdate(t, message), whose only recipient is c itself.
PubLookup(t) ==
    /\ th[t].pc = "cp_lookup"
    /\ clock[th[t].c] = 0
    /\ LET k == privateTopics[th[t].c][th[t].n] IN
         IF k = 0
         THEN Set(t, [th[t] EXCEPT !.pc = "ret", !.err = "NotFound"])
         ELSE Set(t, [th[t] EXCEPT !.pc = "snd_lock", !.kind = "update",
                                   !.to = th[t].c,
                                   !.snap = PrivSubscribers(k)])
    /\ UNCHANGED <<clients, cl, clock, hubW, hubR, publicTopics, pubClients,
                   topics, privateTopics, driver>>
    /\ UNCHANGED <<nops, hist>>

\* ------------------------------------------------------------- hub Pub
\* sSEPubSubHandler.Pub is called (part_000:168).
HubPub(t, n) ==
    /\ CanCall(t)
    /\ Set(t, [Idle EXCEPT !.pc = "hp_rlock", !.op = "HubPub", !.n = n])
    /\ UNCHANGED <<clients, cl, clock, hubW, hubR, publicTopics, pubClients,
                   topics, privateTopics, driver>>
    /\ Called("HubPub", 0, n)

\* s.lock.RLock() and the lookup of the topic (part_000:169-176).
HubPubRLock(t) ==
    /\ th[t].pc = "hp_rlock"
    /\ hubW = 0
    /\ IF th[t].n \notin publicTopics
       THEN /\ Set(t, [th[t] EXCEPT !.pc = "ret", !.err = "NotFound"])
            /\ UNCHANGED hubR
       ELSE /\ hubR' = hubR \cup {t}
            /\ Set(t, [th[t] EXCEPT !.pc = "hp_loop", !.kind = "update",
                                    !.snap = PubSubscribers(th[t].n)])
    /\ UNCHANGED <<clients, cl, clock, hubW, publicTopics, pubClients, topics,
                   privateTopics, driver>>
    /\ UNCHANGED <<nops, hist>>

\* One turn of for _, client := range t.Clients (part_000:178-186), over the
\* live map: client.stream <- ... with s.lock read-held, whatever the
\* client's status.
HubPubNext(t) ==
    /\ th[t].pc = "hp_loop"
    /\ \E i \in PubSubscribers(th[t].n) \ th[t].seen :
          Set(t, [th[t] EXCEPT !.pc = "hp_send", !.seen = @ \cup {i},
                               !.to = pubClients[th[t].n][i]])
    /\ UNCHANGED <<clients, cl, clock, hubW, hubR, publicTopics, pubClients,
                   topics, privateTopics, driver>>
    /\ UNCHANGED <<nops, hist>>

\* The range is over: every entry that was in the map from the start has
\* been produced (an entry added during the range may be skipped).
HubPubDone(t) ==
    /\ th[t].pc = "hp_loop"
    /\ (PubSubscribers(th[t].n) \cap th[t].snap) \ th[t].seen = {}
    /\ hubR' = hubR \ {t}
    /\ Set(t, [th[t] EXCEPT !.pc = "ret", !.err = "ok"])
    /\ UNCHANGED <<clients, cl, clock, hubW, publicTopics, pubClients, topics,
                   privateTopics, driver>>
    /\ UNCHANGED <<nops, hist>>

\* ------------------------------------------------------------- RemoveClient
\* sSEPubSubHandler.RemoveClient is called (client.go:78).
RemoveClient(t, id) ==
    /\ CanCall(t)
    /\ Set(t, [Idle EXCEPT !.pc = "rc_get", !.op = "RemoveClient", !.id = id])
    /\ UNCHANGED <<clients, cl, clock, hubW, hubR, publicTopics, pubClients,
                   topics, privateTopics, driver>>
    /\ Called("RemoveClient", 0, "")

\* cl, err := s.getClient(id) (client.go:67-75, 80-83), under s.lock.
GetClient(t) ==
    /\ th[t].pc = "rc_get"
    /\ HubFree
    /\ IF clients[th[t].id] = 0
       THEN Set(t, [th[t] EXCEPT !.pc = "ret", !.err = "NotFound"])
       ELSE Set(t, [th[t] EXCEPT !.pc = "rc_lock", !.c = clients[th[t].id]])
    /\ UNCHANGED <<clients, cl, clock, hubW, hubR, publicTopics, pubClients,
                   topics, privateTopics, driver>>
    /\ UNCHANGED <<nops, hist>>

\* s.lock.Lock(); defer s.lock.Unlock() (client.go:85-86).
RemoveClientLock(t) ==
    /\ th[t].pc = "rc_lock"
    /\ HubFree
    /\ hubW' = t
    /\ Set(t, [th[t] EXCEPT !.pc = "rc_loop", !.phase = "private"])
    /\ UNCHANGED <<clients, cl, clock, hubR, publicTopics, pubClients, topics,
                   privateTopics, driver>>
    /\ UNCHANGED <<nops, hist>>

PrivateLeft(r) ==
    IF r.phase = "private"
    THEN {n \in TopicNames : privateTopics[r.c][n] # 0} \ r.seen
    ELSE {}

PublicLeft(r) ==
    IF r.phase = "private" THEN publicTopics ELSE publicTopics \ r.seen

\* One turn of the loops over cl.privateTopics and then cl.publicTopics
\* (client.go:89-96): cl.Unsub(topic.Name).
RemoveClientNext(t) ==
    /\ th[t].pc = "rc_loop"
    /\ IF PrivateLeft(th[t]) # {}
       THEN \E n \in PrivateLeft(th[t]) :
               Set(t, [th[t] EXCEPT !.pc = "us_body", !.n = n,
                                    !.seen = @ \cup {n}])
       ELSE \E n \in PublicLeft(th[t]) :
               Set(t, [th[t] EXCEPT !.pc = "us_body", !.n = n,
                                    !.phase = "public",
                                    !.seen = (IF th[t].phase = "private"
                                              THEN {} ELSE @) \cup {n}])
    /\ UNCHANGED <<clients, cl, clock, hubW, hubR, publicTopics, pubClients,
                   topics, privateTopics, driver>>
    /\ UNCHANGED <<nops, hist>>

\* delete(s.clients, id); return nil, releasing s.lock (client.go:98-100).
RemoveClientDelete(t) ==
    /\ th[t].pc = "rc_loop"
    /\ PrivateLeft(th[t]) = {}
    /\ PublicLeft(th[t]) = {}
    /\ clients' = [clients EXCEPT ![th[t].id] = 0]
    /\ hubW' = 0
    /\ Set(t, [th[t] EXCEPT !.pc = "ret", !.err = "ok"])
    /\ UNCHANGED <<cl, clock, hubR, publicTopics, pubClients, topics,
                   privateTopics, driver>>
    /\ UNCHANGED <<nops, hist>>

\* ------------------------------------------------------------- the system
Step(t) ==
    \/ \E id \in ClientIds \cup {""} : NewClient(t, id)
    \/ \E id \in ClientIds : RemoveClient(t, id)
    \/ GetClient(t)
    \/ RemoveClientLock(t)
    \/ RemoveClientNext(t)
    \/ RemoveClientDelete(t)
    \/ \E o \in Objs, n \in TopicNames : NewPrivateTopic(t, o, n)
    \/ InsertPrivateTopic(t)
    \/ GetTopics(t)
    \/ \E o \in Objs, n \in TopicNames : RemovePrivateTopic(t, o, n)
    \/ LockForRemoval(t)
    \/ \E o \in Objs, n \in TopicNames : Sub(t, o, n)
    \/ \E o \in Objs, n \in TopicNames : Unsub(t, o, n)
    \/ CalledUnsub(t)
    \/ \E o \in Objs, n \in TopicNames : Pub(t, o, n)
    \/ PubLookup(t)
    \/ \E n \in TopicNames : HubPub(t, n)
    \/ HubPubRLock(t)
    \/ HubPubNext(t)
    \/ HubPubDone(t)
    \/ SendLock(t)

Drive ==
    \/ \E id \in ClientIds : Event(id)
    \/ \E o \in Objs : EventRead(o)
    \/ \E o \in Objs : SetReceving(o)

Next ==
    \/ \E t \in Threads : Step(t)
    \/ Drive

Spec == Init /\ [][Next]_vars

\* One caller at a time: every call returns before the next is made.
NextSeq ==
    \/ Step(1)
    \/ Drive

SpecSeq == Init /\ [][NextSeq]_vars

\* ------------------------------------------------------------- round trips
\* A hub with the clients c1 and c2, in any state of their statuses, of the
\* subscriptions to the public topics and of c1's private topics and its
\* subscriptions to them; one caller then calls Sub and Unsub, one call
\* after the other, and records its calls.
PrivateStates == [TopicNames -> {"none", "unsubscribed", "subscribed"}]

\* The private topic objects of c1 in state p, in the order of their names.
TopicsOf(p) ==
    LET a == IF p["a"] = "none" THEN << >>
             ELSE <<[owner |-> 1, name |-> "a", sub |-> p["a"] = "subscribed"]>>
        b == IF p["b"] = "none" THEN << >>
             ELSE <<[owner |-> 1, name |-> "b", sub |-> p["b"] = "subscribed"]>>
    IN a \o b

InitRoundTrip ==
    /\ clients = [i \in ClientIds |-> IF i = "c1" THEN 1 ELSE 2]
    /\ \E s1, s2 \in {Waiting, Receving} :
          /\ cl = <<[id |-> "c1", status |-> s1], [id |-> "c2", status |-> s2]>>
          /\ driver = {o \in {1, 2} : <<s1, s2>>[o] = Receving}
    /\ clock = [o \in Objs |-> 0]
    /\ hubW = 0
    /\ hubR = {}
    /\ publicTopics = RegisteredPublic
    /\ \E S \in SUBSET ClientIds :
          pubClients = [n \in RegisteredPublic |->
                          [i \in ClientIds |->
                              IF i \in S THEN (IF i = "c1" THEN 1 ELSE 2)
                              ELSE 0]]
    /\ \E p \in PrivateStates :
          /\ topics = TopicsOf(p)
          /\ privateTopics =
                [o \in Objs |-> [n \in TopicNames |->
                    IF o # 1 \/ p[n] = "none" THEN 0
                    ELSE IF n = "a" \/ p["a"] = "none" THEN 1 ELSE 2]]
    /\ th = [t \in Threads |-> Idle]
    /\ nops = 0
    /\ hist = [on |-> TRUE, calls |-> << >>]

NextRoundTrip ==
    \/ \E o \in Objs, n \in TopicNames : Sub(1, o, n)
    \/ \E o \in Objs, n \in TopicNames : Unsub(1, o, n)
    \/ SendLock(1)
    \/ \E o \in Objs : EventRead(o)

SpecRoundTrip == InitRoundTrip /\ [][NextRoundTrip]_vars

\* ------------------------------------------------------------- set accesses
\* Sub and Unsub with the accesses of topic.Clients as steps of their own:
\* a thread is at work on a topic's Clients map from the step that begins
\* the access to the step that ends it.

\* The topic object a name resolves to for a client (client.go:186-197).
TopicOf(o, n) ==
    IF privateTopics[o][n] # 0
    THEN <<"private", n, privateTopics[o][n]>>
    ELSE <<"public", n, 0>>

\* topic.lock of topic object T is held by no thread.
TopicLockFree(T) == \A u \in Threads : th[u].tl # T

\* client.Sub: c.lock.Lock() and the lookup (client.go:183-197).
SubLock(t, o, n) ==
    /\ CanCall(t)
    /\ o \in Allocated
    /\ clock[o] = 0
    /\ LET r == [Idle EXCEPT !.op = "Sub", !.c = o, !.n = n] IN
         IF Resolve(o, n) = "none"
         THEN /\ Set(t, AfterCall(r, "NotFound"))
              /\ UNCHANGED clock
         ELSE /\ Set(t, [r EXCEPT !.pc = "sub_tlock"])
              /\ clock' = [clock EXCEPT ![o] = t]
    /\ UNCHANGED <<clients, cl, hubW, hubR, publicTopics, pubClients, topics,
                   privateTopics, driver>>
    /\ Called("Sub", o, n)

\* topic.lock.Lock() (client.go:200): the write of the map begins.
SubTopicLock(t) ==
    /\ th[t].pc = "sub_tlock"
    /\ TopicLockFree(TopicOf(th[t].c, th[t].n))
    /\ Set(t, [th[t] EXCEPT !.pc = "sub_ins",
                            !.tl = TopicOf(th[t].c, th[t].n),
                            !.acc = TopicOf(th[t].c, th[t].n)])
    /\ UNCHANGED <<clients, cl, clock, hubW, hubR, publicTopics, pubClients,
                   topics, privateTopics, driver>>
    /\ UNCHANGED <<nops, hist>>

\* topic.Clients[c.id] = c; topic.lock.Unlock(); c.lock.Unlock()
\* (client.go:201-204); the notification follows.
SubInsert(t) ==
    /\ th[t].pc = "sub_ins"
    /\ AddSubscriber(th[t].c, th[t].n)
    /\ clock' = [clock EXCEPT ![th[t].c] = 0]
    /\ Set(t, Notify(t, [th[t] EXCEPT !.tl = NoTopic, !.acc = NoTopic],
                     "subscribed"))
    /\ UNCHANGED <<clients, cl, hubW, hubR, publicTopics, privateTopics,
                   driver>>
    /\ UNCHANGED <<nops, hist>>

\* client.Unsub: c.lock.Lock() and the lookup (client.go:214-228); the read
\* of the map (client.go:231) begins, under c.lock alone.
UnsubLock(t, o, n) ==
    /\ CanCall(t)
    /\ o \in Allocated
    /\ clock[o] = 0
    /\ LET r == [Idle EXCEPT !.op = "Unsub", !.c = o, !.n = n] IN
         IF Resolve(o, n) = "none"
         THEN /\ Set(t, AfterCall(r, "NotFound"))
              /\ UNCHANGED clock
         ELSE /\ Set(t, [r EXCEPT !.pc = "us_acc", !.acc = TopicOf(o, n)])
              /\ clock' = [clock EXCEPT ![o] = t]
    /\ UNCHANGED <<clients, cl, hubW, hubR, publicTopics, pubClients, topics,
                   privateTopics, driver>>
    /\ Called("Unsub", o, n)

\* The membership test and delete(topic.Clients, c.id); c.lock.Unlock()
\* (client.go:231-239); the notification follows.
UnsubDelete(t) ==
    /\ th[t].pc = "us_acc"
    /\ LET r == [th[t] EXCEPT !.acc = NoTopic] IN
         IF ~IsSubscribed(r.c, r.n)
         THEN /\ Set(t, AfterCall(r, "NotSubscribed"))
              /\ UNCHANGED <<topics, pubClients>>
         ELSE /\ DeleteSubscriber(r.c, r.n)
              /\ Set(t, Notify(t, r, "unsubscribed"))
    /\ clock' = [clock EXCEPT ![th[t].c] = 0]
    /\ UNCHANGED <<clients, cl, hubW, hubR, publicTopics, privateTopics,
                   driver>>
    /\ UNCHANGED <<nops, hist>>

StepAccess(t) ==
    \/ \E id \in ClientIds \cup {""} : NewClient(t, id)
    \/ \E o \in Objs, n \in TopicNames : NewPrivateTopic(t, o, n)
    \/ InsertPrivateTopic(t)
    \/ GetTopics(t)
    \/ \E o \in Objs, n \in TopicNames : SubLock(t, o, n)
    \/ SubTopicLock(t)
    \/ SubInsert(t)
    \/ \E o \in Objs, n \in TopicNames : UnsubLock(t, o, n)
    \/ UnsubDelete(t)
    \/ \E n \in TopicNames : HubPub(t, n)
    \/ HubPubRLock(t)
    \/ HubPubNext(t)
    \/ HubPubDone(t)
    \/ SendLock(t)

NextAccess ==
    \/ \E t \in Threads : StepAccess(t)
    \/ Drive

SpecAccess == Init /\ [][NextAccess]_vars

\* ------------------------------------------------------------- fanout
\* A hub with the clients c1 and c2, each subscribed or not to the public
\* topics, each either Waiting or Receving with an Event loop reading its
\* stream; callers then publish on the hub and subscribe and unsubscribe.
InitFanout ==
    /\ clients = [i \in ClientIds |-> IF i = "c1" THEN 1 ELSE 2]
    /\ \E R \in SUBSET {1, 2} :
          /\ driver = R
          /\ cl = <<[id |-> "c1",
                     status |-> IF 1 \in R THEN Receving ELSE Waiting],
                    [id |-> "c2",
                     status |-> IF 2 \in R THEN Receving ELSE Waiting]>>
    /\ clock = [o \in Objs |-> 0]
    /\ hubW = 0
    /\ hubR = {}
    /\ publicTopics = RegisteredPublic
    /\ \E S \in SUBSET ClientIds :
          pubClients = [n \in RegisteredPublic |->
                          [i \in ClientIds |->
                              IF i \in S THEN (IF i = "c1" THEN 1 ELSE 2)
                              ELSE 0]]
    /\ topics = << >>
    /\ privateTopics = [o \in Objs |-> [n \in TopicNames |-> 0]]
    /\ th = [t \in Threads |-> Idle]
    /\ nops = 0
    /\ hist = [on |-> FALSE, calls |-> << >>]

StepFanout(t) ==
    \/ \E n \in TopicNames : HubPub(t, n)
    \/ HubPubRLock(t)
    \/ HubPubNext(t)
    \/ HubPubDone(t)
    \/ \E o \in Objs, n \in TopicNames : Sub(t, o, n)
    \/ \E o \in Objs, n \in TopicNames : Unsub(t, o, n)
    \/ SendLock(t)

NextFanout ==
    \/ \E t \in Threads : StepFanout(t)
    \/ Drive

SpecFanout == InitFanout /\ [][NextFanout]_vars

\* ------------------------------------------------------------- generateInit
\* The map client.GetTopics builds (client.go:155-161), as the set of its
\* values: an entry for every public topic first, then an entry for every
\* private topic of the client, which replaces a public one of its name.
GetTopicsMap(o) ==
    LET pub == {<<"public", n, 0>> : n \in publicTopics}
        priv == {<<"private", n, privateTopics[o][n]>> :
                    n \in {m \in TopicNames : privateTopics[o][m] # 0}}
    IN {T \in pub : \A P \in priv : P[2] # T[2]} \cup priv

\* _, exists := topic.Clients[c.id] for a topic object (client.go:174).
InClients(o, T) ==
    IF T[1] = "private" THEN topics[T[3]].sub
    ELSE pubClients[T[2]][cl[o].id] # 0

\* client.generateInit is called (client.go:317).
GenerateInit(t, o) ==
    /\ CanCall(t)
    /\ o \in Allocated
    /\ Set(t, [Idle EXCEPT !.pc = "gi_topics", !.op = "generateInit",
                           !.c = o])
    /\ UNCHANGED <<clients, cl, clock, hubW, hubR, publicTopics, pubClients,
                   topics, privateTopics, driver>>
    /\ Called("generateInit", o, "")

\* topics := c.GetTopics() (client.go:319), under c.lock.
InitTopics(t) ==
    /\ th[t].pc = "gi_topics"
    /\ clock[th[t].c] = 0
    /\ Set(t, [th[t] EXCEPT !.pc = "gi_view",
                            !.tops = {T[2] : T \in GetTopicsMap(th[t].c)}])
    /\ UNCHANGED <<clients, cl, clock, hubW, hubR, publicTopics, pubClients,
                   topics, privateTopics, driver>>
    /\ UNCHANGED <<nops, hist>>

\* subtopics := c.GetSubscribedTopics() (client.go:320): its own
\* topics := c.GetTopics() (client.go:168), under c.lock, released again.
SubscribedTopicsView(t) ==
    /\ th[t].pc = "gi_view"
    /\ clock[th[t].c] = 0
    /\ Set(t, [th[t] EXCEPT !.pc = "gi_subs",
                            !.view = GetTopicsMap(th[t].c)])
    /\ UNCHANGED <<clients, cl, clock, hubW, hubR, publicTopics, pubClients,
                   topics, privateTopics, driver>>
    /\ UNCHANGED <<nops, hist>>

\* The rest of GetSubscribedTopics (client.go:169-178), under c.lock, and
\* the envelope (client.go:322-358): one Sys entry if topics is not empty,
\* one more if subtopics is not empty; the topics go to Sys[0] and the
\* subscribed topics to Sys[1], an index out of range when topics is empty.
InitEnvelope(t) ==
    /\ th[t].pc = "gi_subs"
    /\ clock[th[t].c] = 0
    /\ LET subs == {T[2] : T \in {V \in th[t].view : InClients(th[t].c, V)}}
       IN Set(t, [th[t] EXCEPT !.pc = "ret", !.subs = subs,
                               !.err = IF th[t].tops = {} /\ subs # {}
                                       THEN "panic" ELSE "ok"])
    /\ UNCHANGED <<clients, cl, clock, hubW, hubR, publicTopics, pubClients,
                   topics, privateTopics, driver>>
    /\ UNCHANGED <<nops, hist>>

\* A hub configured with or without public topics.
InitSnapshot ==
    /\ clients = [i \in ClientIds |-> 0]
    /\ cl = << >>
    /\ clock = [o \in Objs |-> 0]
    /\ hubW = 0
    /\ hubR = {}
    /\ publicTopics \in {{}, RegisteredPublic}
    /\ pubClients = [n \in publicTopics |-> [i \in ClientIds |-> 0]]
    /\ topics = << >>
    /\ privateTopics = [o \in Objs |-> [n \in TopicNames |-> 0]]
    /\ driver = {}
    /\ th = [t \in Threads |-> Idle]
    /\ nops = 0
    /\ hist = [on |-> FALSE, calls |-> << >>]

StepSnapshot(t) ==
    \/ \E id \in ClientIds \cup {""} : NewClient(t, id)
    \/ \E o \in Objs, n \in TopicNames : NewPrivateTopic(t, o, n)
    \/ InsertPrivateTopic(t)
    \/ GetTopics(t)
    \/ \E o \in Objs, n \in TopicNames : Sub(t, o, n)
    \/ \E o \in Objs, n \in TopicNames : Unsub(t, o, n)
    \/ SendLock(t)
    \/ \E o \in Objs : GenerateInit(t, o)
    \/ InitTopics(t)
    \/ SubscribedTopicsView(t)
    \/ InitEnvelope(t)

NextSnapshot == \E t \in Threads : StepSnapshot(t)

SpecSnapshot == InitSnapshot /\ [][NextSnapshot]_vars

\* The same with one caller.
SpecSnapshotSeq == InitSnapshot /\ [][StepSnapshot(1)]_vars

\* ------------------------------------------------------------- properties
\* Thread t makes the step that ends a call of op.
Returns(t, op) ==
    /\ th[t].op = op
    /\ ~Free(t)
    /\ th'[t].pc = "ret"

\* Thread t is blocked in a send on a client's stream.
Sending(t) == th[t].pc \in {"snd_wait", "hp_send"}

\* C1: isolation of fanout.  A publish pushes the update to the clients
\* that were in the topic's subscriber set when the topic was looked up and
\* to no other client: whatever it has pushed so far went to members of that
\* set, and when it returns success every member has been pushed to.
C1_Isolation ==
    \A t \in Threads :
        th[t].kind = "update" =>
            /\ th[t].pushed \subseteq th[t].snap
            /\ (th[t].pc = "ret" /\ th[t].err = "ok")
                  => th[t].snap \subseteq th[t].pushed

\* C2: cascade.  When RemoveClient(id) returns without error, id is in the
\* subscriber set of no topic, public or private.
C2_Cascade ==
    [][\A t \in Threads :
          (Returns(t, "RemoveClient") /\ th'[t].err = "ok")
              => th[t].id \notin AllSubscriberIds']_vars

\* C3: no dangling subscribers.  Every id in a topic's subscriber set is the
\* id of a client present in the hub's client map.
C3_NoDangling == \A i \in AllSubscriberIds : clients[i] # 0

\* C4: notification ordering.  The "subscribed"/"unsubscribed"
\* notifications of a Receving client arrive on its stream in the order in
\* which the calls changed the subscriber set: no call's notification has
\* arrived while a different notification, of an earlier change of the same
\* topic of the same client, is still to arrive (it would arrive last and
\* contradict the client's membership).
C4_NotificationOrder ==
    \A t \in Threads :
        (th[t].pc = "ret"
            /\ th[t].kind \in {"subscribed", "unsubscribed"}
            /\ th[t].trk)
          => \A u \in th[t].after : th[u].kind = th[t].kind

\* A publisher blocked on the stream of a client nothing reads: it holds
\* s.lock for reading, so no Event loop can start for the client and no
\* caller can take s.lock.
Stuck(t) == th[t].pc = "hp_send" /\ th[t].to \notin driver

\* Once stuck, stuck in every later state.
StuckForGood == [][\A t \in Threads : Stuck(t) => Stuck(t)']_vars

\* C5: cancellation safety.  RemoveClient(c) running concurrently with a
\* publish to c never leaves the two blocked for good: the publisher on c's
\* stream, RemoveClient on s.lock.
C5_NoDeadlock ==
    \A t, u \in Threads :
        ~ /\ Stuck(t)
          /\ th[u].op = "RemoveClient"
          /\ th[u].pc \in {"rc_get", "rc_lock"}
          /\ th[u].id = cl[th[t].to].id

\* C6: no blocking push under a lock.  A thread sending on a client's
\* stream holds no client lock (a topic lock is never held across a send:
\* Sub releases it before it notifies).
C6_NoPushUnderLock ==
    \A t \in Threads : Sending(t) => \A o \in Objs : clock[o] # t

\* C7: idle clients drop.  No thread is sending on, or waiting for a reader
\* of, the stream of a client whose status is Waiting.
C7_IdleDrop ==
    \A t \in Threads : Sending(t) => IsReceving(th[t].to)

\* The latest calls of the recording caller, the last of them returned.
Calls == hist.calls
NCalls == Len(hist.calls)

\* The caller's latest two calls are Sub(name) and then Unsub(name) on one
\* client, name resolving to a topic for it, and both have returned.
RoundTrip ==
    /\ th[1].pc = "ret"
    /\ NCalls >= 2
    /\ Calls[NCalls - 1].op = "Sub"
    /\ Calls[NCalls].op = "Unsub"
    /\ Calls[NCalls].c = Calls[NCalls - 1].c
    /\ Calls[NCalls].n = Calls[NCalls - 1].n
    /\ Resolve(Calls[NCalls].c, Calls[NCalls].n) # "none"

\* The caller's latest three calls are Sub(name), Unsub(name), Unsub(name).
ThirdUnsub ==
    /\ th[1].pc = "ret"
    /\ NCalls >= 3
    /\ Calls[NCalls - 2].op = "Sub"
    /\ Calls[NCalls - 1].op = "Unsub"
    /\ Calls[NCalls].op = "Unsub"
    /\ Calls[NCalls].c = Calls[NCalls - 2].c
    /\ Calls[NCalls].n = Calls[NCalls - 2].n
    /\ Calls[NCalls - 1].c = Calls[NCalls - 2].c
    /\ Calls[NCalls - 1].n = Calls[NCalls - 2].n
    /\ Resolve(Calls[NCalls].c, Calls[NCalls].n) # "none"

\* C8 as claimed: from any state of the subscriber set, Sub(name) and then
\* Unsub(name) leave the set as it was before the pair, and a further
\* Unsub(name) fails with the not-subscribed error.
C8_RoundTripAnyState ==
    /\ RoundTrip =>
          Subscribers(Calls[NCalls].c, Calls[NCalls].n)
              = Calls[NCalls - 1].before
    /\ ThirdUnsub => th[1].err = "NotSubscribed"

\* C8, amended: when the client is not subscribed before the pair, Sub(name)
\* and then Unsub(name) both succeed and leave the subscriber set as it was;
\* when it is subscribed before the pair, the pair leaves the set without
\* the client; either way a further Unsub(name) fails with the
\* not-subscribed error.
C8_RoundTrip ==
    /\ RoundTrip =>
          LET c == Calls[NCalls].c
              n == Calls[NCalls].n
              before == Calls[NCalls - 1].before
          IN /\ th[1].err = "ok"
             /\ Subscribers(c, n) = before \ {cl[c].id}
             /\ cl[c].id \notin before => Subscribers(c, n) = before
    /\ ThirdUnsub => th[1].err = "NotSubscribed"

\* The three calls were made on a topic another client is subscribed to and
\* the caller's client was not.
C8_Witness ==
    /\ ThirdUnsub
    /\ Calls[NCalls - 2].before # {}
    /\ cl[Calls[NCalls].c].id \notin Calls[NCalls - 2].before

\* Thread t makes a call of NewClient in this step.
CallsNewClient(t) ==
    /\ CanCall(t)
    /\ nops' = nops + 1
    /\ th'[t].op = "NewClient"

\* C9: idempotent client creation.  NewClient(id) returns the client the
\* hub map holds for id after the call; when the map already held one, it
\* returns that one and changes nothing; and an entry of the map is changed
\* or deleted by nothing but RemoveClient's delete.  So two calls with no
\* RemoveClient between them return the same client object.
C9_IdempotentNewClient ==
    [][/\ \A t \in Threads :
            CallsNewClient(t) =>
                LET id == th'[t].id IN
                  /\ th'[t].ret # 0
                  /\ th'[t].ret = clients'[id]
                  /\ cl'[th'[t].ret].id = id
                  /\ clients[id] # 0 =>
                        /\ th'[t].ret = clients[id]
                        /\ UNCHANGED <<clients, cl, clock, pubClients,
                                       topics, privateTopics, driver>>
       /\ \A id \in ClientIds :
            (clients[id] # 0 /\ clients'[id] # clients[id]) =>
                \E t \in Threads : Returns(t, "RemoveClient") /\ th[t].id = id
      ]_vars

\* Two calls of NewClient with the same id have returned the same object.
C9_Witness ==
    /\ th[1].pc = "ret" /\ th[2].pc = "ret"
    /\ th[1].op = "NewClient" /\ th[2].op = "NewClient"
    /\ th[1].id = th[2].id
    /\ th[1].ret = th[2].ret

\* C10: private-topic name uniqueness.  A call of NewPrivateTopic inserts
\* its topic only when the client has no private topic of that name: it
\* never replaces an existing topic object.
C10_UniqueName ==
    [][\A t \in Threads :
          (th[t].pc = "npt_lock" /\ th'[t].pc = "gt")
              => privateTopics[th[t].c][th[t].n] = 0]_vars

\* C11: RemovePrivateTopic terminates.  A call of RemovePrivateTopic on an
\* existing private topic goes on to unsubscribe, delete the name and
\* return: it is never waiting, in the c.lock.Lock() of the Unsub it calls,
\* for the client lock it took itself.
C11_RemovalTerminates ==
    \A t \in Threads :
        ~ /\ th[t].op = "RemovePrivateTopic"
          /\ th[t].pc = "us_body"
          /\ clock[th[t].c] = t

\* A call of RemovePrivateTopic that took the client lock never makes
\* another step, and the topic stays in the client's map.
RemovalBlockedForGood ==
    [][\A t \in Threads :
          (th[t].op = "RemovePrivateTopic" /\ th[t].pc = "us_body")
              => /\ th'[t].pc = "us_body"
                 /\ clock'[th[t].c] = t
                 /\ privateTopics'[th[t].c][th[t].n] # 0]_vars

\* Thread t makes a call of op in this step.
Calling(t, op) ==
    /\ CanCall(t)
    /\ nops' = nops + 1
    /\ th'[t].op = op

\* C12: Unsub error outcomes.  Unsub(name) returns the not-found error when
\* the name is neither a private topic of the client nor a public topic,
\* and the not-subscribed error when the topic exists and the client is not
\* in its subscriber set; in both cases no subscriber set changes and the
\* call returns without a notification; in every other case it is no error.
C12_UnsubErrors ==
    [][\A t \in Threads :
          Calling(t, "Unsub") =>
              LET o == th'[t].c
                  n == th'[t].n
                  found == privateTopics[o][n] # 0 \/ n \in publicTopics
                  member == IF privateTopics[o][n] # 0
                            THEN topics[privateTopics[o][n]].sub
                            ELSE pubClients[n][cl[o].id] # 0
              IN /\ ~found =>
                       /\ th'[t].pc = "ret" /\ th'[t].err = "NotFound"
                       /\ th'[t].kind = "" /\ th'[t].pushed = {}
                       /\ UNCHANGED <<topics, pubClients>>
                 /\ (found /\ ~member) =>
                       /\ th'[t].pc = "ret" /\ th'[t].err = "NotSubscribed"
                       /\ th'[t].kind = "" /\ th'[t].pushed = {}
                       /\ UNCHANGED <<topics, pubClients>>
                 /\ (found /\ member) =>
                       /\ th'[t].pc = "snd_lock"
                       /\ th'[t].kind = "unsubscribed"]_vars

\* Unsub has returned the not-subscribed error for a public topic that has
\* a subscriber, another client.
C12_Witness ==
    /\ th[1].pc = "ret"
    /\ th[1].op = "Unsub"
    /\ th[1].err = "NotSubscribed"
    /\ th[1].n \in publicTopics
    /\ privateTopics[th[1].c][th[1].n] = 0
    /\ PubSubscribers(th[1].n) # {}

\* Thread t makes the step in which its publish fails.
PublishFails(t) ==
    /\ th'[t].op \in {"Pub", "HubPub"}
    /\ th'[t].pc = "ret"
    /\ th'[t].err # "ok"
    /\ Calling(t, th'[t].op) \/ ~Free(t)

\* C13: a failed publish delivers nothing.  client.Pub fails when the
\* client is Waiting and when the name is not a private topic of the client,
\* a registered public topic included; the hub's Pub fails when the name is
\* not a registered public topic; and a publish that fails has pushed to
\* no stream and leaves the clients, topics and subscriber sets as they were.
C13_FailedPublish ==
    [][\A t \in Threads :
          /\ (Calling(t, "Pub") /\ cl[th'[t].c].status = Waiting)
                => PublishFails(t)
          /\ (th[t].pc = "cp_lookup" /\ th'[t].pc # "cp_lookup"
                 /\ privateTopics[th[t].c][th[t].n] = 0)
                => PublishFails(t)
          /\ (th[t].pc = "hp_rlock" /\ th'[t].pc # "hp_rlock"
                 /\ th[t].n \notin publicTopics)
                => PublishFails(t)
          /\ PublishFails(t) =>
                /\ th'[t].pushed = {}
                /\ th'[t].kind = ""
                /\ UNCHANGED <<clients, cl, clock, hubW, hubR, publicTopics,
                               pubClients, topics, privateTopics>>]_vars

\* client.Pub of a Receving client has failed for the name of a registered
\* public topic the client is subscribed to.
C13_Witness ==
    \E t \in Threads :
        /\ th[t].pc = "ret"
        /\ th[t].op = "Pub"
        /\ th[t].err = "NotFound"
        /\ IsReceving(th[t].c)
        /\ th[t].n \in publicTopics
        /\ cl[th[t].c].id \in PubSubscribers(th[t].n)

\* The locks thread t holds, and the lock it is asking for.
HoldsHub(t) == hubW = t \/ t \in hubR
HoldsClient(t) == {o \in Objs : clock[o] = t}
WantsHub(t) == th[t].pc \in {"hp_rlock", "rc_get", "rc_lock"}
WantsClient(t) ==
    IF th[t].pc = "snd_lock" THEN th[t].to
    ELSE IF th[t].pc \in {"us_body", "npt_lock", "gt", "rpt_lock",
                          "cp_lookup", "gi_topics", "gi_view", "gi_subs"}
    THEN th[t].c
    ELSE 0

\* C14: lock ordering.  Locks are taken in the order hub, client, topic: a
\* thread asking for the hub lock holds no lock at all, and a thread asking
\* for a client lock holds no client lock (that one least of all) and no
\* topic lock.
C14_LockOrder ==
    \A t \in Threads :
        /\ WantsHub(t) =>
              /\ ~HoldsHub(t)
              /\ HoldsClient(t) = {}
              /\ th[t].tl = NoTopic
        /\ WantsClient(t) # 0 =>
              /\ HoldsClient(t) = {}
              /\ th[t].tl = NoTopic

\* Thread t is at work on the Clients map of topic object T: in Sub's
\* insert, in Unsub's membership test and delete, or in the range of the
\* hub's Pub over the map.
Accessing(t, T) ==
    \/ th[t].acc = T
    \/ th[t].pc \in {"hp_loop", "hp_send"} /\ T = <<"public", th[t].n, 0>>

\* Thread t is at work on a Clients map and writes it: Sub's insert, or the
\* delete of an Unsub that finds the client in the map.
Writing(t) ==
    \/ th[t].pc = "sub_ins"
    \/ th[t].pc = "us_acc" /\ IsSubscribed(th[t].c, th[t].n)

\* Every access of a topic's Clients map is made holding that topic's lock.
AccessUnderTopicLock ==
    \A t \in Threads :
        /\ th[t].acc # NoTopic => th[t].tl = th[t].acc
        /\ th[t].pc \in {"hp_loop", "hp_send"}
              => th[t].tl = <<"public", th[t].n, 0>>

\* C15: the subscriber set is accessed under the topic's lock, so no two
\* threads are ever at work on the Clients map of one topic at the same
\* time, one of them writing it.
C15_ExclusiveAccess ==
    \A t, u \in Threads :
        (t # u /\ Writing(t)) => ~Accessing(u, th[t].acc)

\* C16: delivery-state machine.  The Event loop marks the client Receving
\* before its first read of the client's stream: every message it takes
\* from the stream of a client, it takes while the client is Receving.
C16_ReadWhileReceving ==
    [][\A o \in Objs : EventRead(o) => IsReceving(o)]_vars

\* C17: fire-and-forget fanout.  A subscriber whose stream is not read
\* never keeps the update from the remaining subscribers: no publisher is
\* blocked for good on the stream of one subscriber while another client,
\* in the subscriber set since the publish began and with an Event loop
\* reading its stream, has still to get the update.
C17_FireAndForget ==
    \A t \in Threads :
        Stuck(t) =>
            \A i \in (th[t].snap \cap PubSubscribers(th[t].n)) \ th[t].seen :
                pubClients[th[t].n][i] \notin driver

\* C18: subscription/visibility consistency.  A topic object with the
\* client in its subscriber set is the object the client's private-topic
\* map holds under the topic's name (a public topic object is never
\* replaced or removed: publicTopics does not change).
C18_SubscribedIsVisible ==
    /\ \A k \in 1..Len(topics) :
          topics[k].sub => privateTopics[topics[k].owner][topics[k].name] = k
    /\ \A n \in DOMAIN pubClients : n \in publicTopics

\* C20: initial snapshot consistency.  generateInit, whatever runs beside
\* it, completes without a run-time fault, and the names of its
\* "subscribed" list are all in its "topics" list.
C20_SnapshotConsistent ==
    \A t \in Threads :
        (th[t].op = "generateInit" /\ th[t].pc = "ret")
            => /\ th[t].err = "ok"
               /\ th[t].subs \subseteq th[t].tops

\* In the map GetTopics builds, a private topic of the client stands for
\* its name, and a public topic only where the client has no private one.
PrivateShadowsPublic ==
    \A o \in Allocated : \A n \in TopicNames :
        /\ privateTopics[o][n] # 0 =>
              /\ <<"private", n, privateTopics[o][n]>> \in GetTopicsMap(o)
              /\ <<"public", n, 0>> \notin GetTopicsMap(o)
        /\ (privateTopics[o][n] = 0 /\ n \in publicTopics) =>
              <<"public", n, 0>> \in GetTopicsMap(o)

\* The call of Sub or Unsub thread t makes in this step changes the
\* subscriber set of the private topic k alone, leaving the client in it
\* (Sub) or out of it (Unsub).
OnlyPrivate(t, k) ==
    /\ pubClients' = pubClients
    /\ Len(topics') = Len(topics)
    /\ \A j \in 1..Len(topics) : j # k => topics'[j] = topics[j]
    /\ topics'[k].sub = (th'[t].op = "Sub")

\* The same for the public topic n and the client with id i, object o.
OnlyPublic(t, n, i, o) ==
    /\ topics' = topics
    /\ \A m \in publicTopics : \A j \in ClientIds :
          (m # n \/ j # i) => pubClients'[m][j] = pubClients[m][j]
    /\ pubClients'[n][i] = (IF th'[t].op = "Sub" THEN o ELSE 0)

\* C19: name resolution.  Sub(name) and Unsub(name) look the name up among
\* the client's private topics first and the public topics second, and
\* GetTopics lets a private topic shadow a public one: a call with a name
\* in both maps changes the private topic's subscriber set alone, a call
\* with a name that is public only changes the public topic's, and a call
\* with a name in neither returns the not-found error and changes nothing.
C19_NameResolution ==
    /\ []PrivateShadowsPublic
    /\ [][\A t \in Threads :
            (Calling(t, "Sub") \/ Calling(t, "Unsub")) =>
                LET o == th'[t].c
                    n == th'[t].n
                    k == privateTopics[o][n]
                IN IF k # 0 THEN OnlyPrivate(t, k)
                   ELSE IF n \in publicTopics
                   THEN OnlyPublic(t, n, cl[o].id, o)
                   ELSE /\ th'[t].pc = "ret"
                        /\ th'[t].err = "NotFound"
                        /\ UNCHANGED <<topics, pubClients>>]_vars

\* A client subscribed to the public topic of a name has made a private
\* topic of that name, and its Sub of the name has put it in the private
\* topic's subscriber set.
C19_Witness ==
    \E t \in Threads :
        /\ th[t].op = "Sub"
        /\ th[t].c # 0
        /\ th[t].n \in publicTopics
        /\ privateTopics[th[t].c][th[t].n] # 0
        /\ topics[privateTopics[th[t].c][th[t].n]].sub
        /\ cl[th[t].c].id \in PubSubscribers(th[t].n)

\* C21: RemoveClient is atomic with respect to the hub map.  A call of
\* RemoveClient(id) that returns success deletes the entry it looked up:
\* at its delete the map holds, under id, the client getClient returned.
\* It is not absent (deleted by another call, which alone returns success)
\* and it is not a client NewClient has created under id since.
C21_AtomicRemoval ==
    [][\A t \in Threads :
          (Returns(t, "RemoveClient") /\ th'[t].err = "ok")
              => clients[th[t].id] = th[t].c]_vars

\* A successful RemoveClient never deletes a client created after its
\* lookup.
RemovalSparesNewClient ==
    [][\A t \in Threads :
          (Returns(t, "RemoveClient") /\ th'[t].err = "ok")
              => clients[th[t].id] \in {0, th[t].c}]_vars

\* Thread t makes a step of a call of Sub, Unsub or RemoveClient: the call
\* itself, or a later step of it up to its return and the delivery of its
\* notification.
MembershipStep(t) ==
    /\ th'[t].op \in {"Sub", "Unsub", "RemoveClient"}
    /\ Calling(t, th'[t].op) \/ th'[t].pc # th[t].pc

\* Client object o is a subscriber of the public topic n, by the test the
\* code makes: its id is a key of the topic's Clients map.
Member(o, n) == pubClients[n][cl[o].id] # 0

\* The step changes nothing but the membership of client object c: not the
\* membership of another client object, not another client's private
\* topics or private-topic map, not the registered public topics.
FrameOf(c) ==
    /\ publicTopics' = publicTopics
    /\ cl' = cl
    /\ \A o \in Allocated \ {c} :
          /\ privateTopics'[o] = privateTopics[o]
          /\ \A n \in publicTopics : Member(o, n)' = Member(o, n)
    /\ Len(topics') = Len(topics)
    /\ \A k \in 1..Len(topics) :
          topics[k].owner # c => topics'[k] = topics[k]

\* The same by id: no entry of a Clients map under another id changes.
FrameOfId(i) ==
    \A n \in publicTopics : \A j \in ClientIds \ {i} :
        pubClients'[n][j] = pubClients[n][j]

\* C22: frame of the membership operations.  Sub, Unsub and RemoveClient
\* performed for client c change the membership of c alone: every other
\* client's membership in every topic, the other clients' private-topic
\* maps and the registered public topic names stay as they are, and the
\* call pushes to no stream but c's.
C22_Frame ==
    [][\A t \in Threads :
          MembershipStep(t) =>
              /\ FrameOf(th'[t].c)
              /\ th'[t].to \in {0, th'[t].c}]_vars

\* Entries of the Clients maps under the ids of other clients do not change.
FrameById ==
    [][\A t \in Threads :
          (MembershipStep(t) /\ th'[t].c # 0)
              => FrameOfId(cl[th'[t].c].id)]_vars
=============================================================================
